---- MODULE Spec2Model ----
(***************************************************************************)
(* Model of readthedocs/projects/validators.py: DomainNameValidator,       *)
(* RepositoryURLValidator and SubmoduleURLValidator.                       *)
(*                                                                         *)
(* A string is a sequence of one-character strings.  The library calls the *)
(* validators make (urllib.parse.urlparse, re, str.encode('idna'),         *)
(* django's RegexValidator.__call__) are modelled by what CPython 3.11 and *)
(* Django do on the characters the inputs are drawn from.                  *)
(***************************************************************************)
EXTENDS Integers, Sequences, FiniteSets, TLC

VARIABLES
    settings,        \* django.conf.settings: ALLOW_PRIVATE_REPOS, DEBUG
    self,            \* the validator instance that is called
    value,           \* the argument of __call__
    url,             \* the local `url` of RepositoryURLValidator.__call__
    public_schemes,  \* the list object bound to `public_schemes` by the last call
    outcome,         \* how the call ended
    pc,              \* "idle" | "pending" | "done" (the call has ended, under these settings)
    ref              \* an earlier finished call, remembered for comparison

vars == <<settings, self, value, url, public_schemes, outcome, pc, ref>>

----------------------------------------------------------------------------
(* Characters *)

\* U+0020..U+007E in code point order (U+0060 is named, not written)
AsciiPrintable ==
    << " ", "!", "\"", "#", "$", "%", "&", "'", "(", ")", "*", "+", ",", "-",
       ".", "/", "0", "1", "2", "3", "4", "5", "6", "7", "8", "9", ":", ";",
       "<", "=", ">", "?", "@", "A", "B", "C", "D", "E", "F", "G", "H", "I",
       "J", "K", "L", "M", "N", "O", "P", "Q", "R", "S", "T", "U", "V", "W",
       "X", "Y", "Z", "[", "\\", "]", "^", "_", "GRAVE", "a", "b", "c", "d", "e",
       "f", "g", "h", "i", "j", "k", "l", "m", "n", "o", "p", "q", "r", "s",
       "t", "u", "v", "w", "x", "y", "z", "{", "|", "}", "~" >>

\* LATIN SMALL LETTER U WITH DIAERESIS, the one non-ASCII character of the inputs
U_uml == "U+00FC"

Chars == {AsciiPrintable[i] : i \in 1..Len(AsciiPrintable)} \cup {"\t", "\n", "\r", U_uml}

OrdTable ==
    [c \in Chars |->
        CASE c = "\t" -> 9
          [] c = "\n" -> 10
          [] c = "\r" -> 13
          [] c = U_uml -> 252
          [] OTHER -> 31 + (CHOOSE i \in 1..Len(AsciiPrintable) : AsciiPrintable[i] = c)]

Ord(c) == OrdTable[c]

Chr(n) == AsciiPrintable[n - 31]

IsAscii(c) == Ord(c) < 128
IsAsciiUpper(c) == Ord(c) \in 65..90
IsAsciiLower(c) == Ord(c) \in 97..122
IsAsciiAlpha(c) == IsAsciiUpper(c) \/ IsAsciiLower(c)
IsAsciiDigit(c) == Ord(c) \in 48..57

Lower(c) == IF IsAsciiUpper(c) THEN Chr(Ord(c) + 32) ELSE c

LowerStr(s) == [i \in 1..Len(s) |-> Lower(s[i])]

StartsWith(s, p) == Len(s) >= Len(p) /\ SubSeq(s, 1, Len(p)) = p

Contains(s, p) ==
    \E i \in 1..(Len(s) - Len(p) + 1) : SubSeq(s, i, i + Len(p) - 1) = p

\* str.find: the 1-based index of the first c in s, 0 when there is none
Find(s, c) ==
    IF \E i \in 1..Len(s) : s[i] = c
    THEN CHOOSE i \in 1..Len(s) : s[i] = c /\ \A k \in 1..(i - 1) : s[k] # c
    ELSE 0

----------------------------------------------------------------------------
(* urllib.parse.urlparse, as far as RepositoryURLValidator reads it: the   *)
(* scheme, or the ValueError urlsplit raises.                              *)

scheme_chars ==
    {c \in Chars : IsAsciiAlpha(c) \/ IsAsciiDigit(c)} \cup {"+", "-", "."}

\* _WHATWG_C0_CONTROL_OR_SPACE and _UNSAFE_URL_BYTES_TO_REMOVE, on Chars
C0ControlOrSpace == {" ", "\t", "\n", "\r"}
UnsafeUrlBytes == {"\t", "\r", "\n"}

RECURSIVE LStrip(_, _)
LStrip(s, cs) == IF s # <<>> /\ Head(s) \in cs THEN LStrip(Tail(s), cs) ELSE s

RemoveAll(s, cs) == SelectSeq(s, LAMBDA c : c \notin cs)

\* _splitnetloc(url, 2): the text between the leading // and the first of / ? #
SplitNetloc(u) ==
    LET rest == SubSeq(u, 3, Len(u))
        ends == {i \in 1..Len(rest) : rest[i] \in {"/", "?", "#"}}
        stop == IF ends = {} THEN Len(rest) + 1
                ELSE CHOOSE i \in ends : \A k \in ends : i <= k
    IN  SubSeq(rest, 1, stop - 1)

Parsed(scheme) == [raised |-> FALSE, scheme |-> scheme]
ValueError == [raised |-> TRUE, scheme |-> <<>>]

\* The results urlparse(value) can have.  A netloc with one bracket and not
\* the other raises ValueError("Invalid IPv6 URL"); with both brackets the
\* bracketed host is checked by ipaddress, which is not modelled: both
\* results are possible.
urlparse(v) ==
    LET u1 == RemoveAll(LStrip(v, C0ControlOrSpace), UnsafeUrlBytes)
        i == Find(u1, ":")
        hasScheme == /\ i > 1
                     /\ IsAsciiAlpha(u1[1])
                     /\ \A k \in 1..(i - 1) : u1[k] \in scheme_chars
        scheme == IF hasScheme THEN LowerStr(SubSeq(u1, 1, i - 1)) ELSE <<>>
        u2 == IF hasScheme THEN SubSeq(u1, i + 1, Len(u1)) ELSE u1
        hasNetloc == Len(u2) >= 2 /\ u2[1] = "/" /\ u2[2] = "/"
        netloc == IF hasNetloc THEN SplitNetloc(u2) ELSE <<>>
        open == \E k \in 1..Len(netloc) : netloc[k] = "["
        close == \E k \in 1..Len(netloc) : netloc[k] = "]"
    IN  IF open # close THEN {ValueError}
        ELSE IF open /\ close THEN {ValueError, Parsed(scheme)}
        ELSE {Parsed(scheme)}

----------------------------------------------------------------------------
(* RepositoryURLValidator and SubmoduleURLValidator *)

https == <<"h", "t", "t", "p", "s">>
http == <<"h", "t", "t", "p">>
git == <<"g", "i", "t">>
ftps == <<"f", "t", "p", "s">>
ftp == <<"f", "t", "p">>
ssh == <<"s", "s", "h">>
ssh_git == <<"s", "s", "h", "+", "g", "i", "t">>
file == <<"f", "i", "l", "e">>
lp_colon == <<"l", "p", ":">>

PublicSchemesLiteral == <<https, http, git, ftps, ftp>>
private_schemes == <<ssh, ssh_git>>
local_schemes == <<file>>

InList(x, list) == \E i \in 1..Len(list) : list[i] = x

\* faulty variant: the list is one shared object, kept from call to call
SharedPublicSchemes == public_schemes

\* line 62: a new list object in every call
NewPublicSchemes == PublicSchemesLiteral

\* faulty variant: the debug extension is left out
ValidSchemesNoLocal(conf, public) ==
    IF conf.ALLOW_PRIVATE_REPOS THEN public \o private_schemes ELSE public

\* faulty variant: file is valid whatever DEBUG says
ValidSchemesAlwaysLocal(conf, public) ==
    (IF conf.ALLOW_PRIVATE_REPOS THEN public \o private_schemes ELSE public)
        \o local_schemes

\* lines 65-69: valid_schemes is public_schemes itself, extended in place
ValidSchemes(conf, public) ==
    LET withPrivate == IF conf.ALLOW_PRIVATE_REPOS
                       THEN public \o private_schemes ELSE public
    IN  IF conf.DEBUG THEN withPrivate \o local_schemes ELSE withPrivate

\* line 73
HasMaliciousChars(v) == Contains(v, <<"&", "&">>) \/ Contains(v, <<"|">>)

\* \w of a str pattern, on Chars
IsWordChar(c) ==
    IsAsciiAlpha(c) \/ IsAsciiDigit(c) \/ c = "_" \/ c = U_uml

\* line 59 and its use in line 87: re.compile(r'^[\w]+@.+').search(value)
ReGitUser(v) ==
    \E k \in 1..Len(v) : /\ v[k] = "@"
                         /\ k >= 2
                         /\ \A j \in 1..(k - 1) : IsWordChar(v[j])
                         /\ k + 1 <= Len(v) /\ v[k + 1] # "\n"

\* faulty variant: the relative path is accepted by every validator
RelativeAllowedAlways(inst, v) == StartsWith(v, <<".">>)

\* line 84
RelativeAllowed(inst, v) ==
    StartsWith(v, <<".">>) /\ ~inst.disallow_relative_url

\* faulty variant: only the shorthand is taken for SSH cloning
LooksPrivateShorthandOnly(v, u) == ReGitUser(v)

\* line 87
LooksPrivate(v, u) == ReGitUser(v) \/ InList(u.scheme, private_schemes)

Return(v) == [kind |-> "return", detail |-> v]
ValidationError(msg) == [kind |-> "ValidationError", detail |-> msg]
Raised(exc) == [kind |-> exc, detail |-> <<>>]

\* lines 72-95, once urlparse has returned u
Decide(inst, conf, v, u, valid_schemes) ==
    IF HasMaliciousChars(v) THEN ValidationError("Invalid character in the URL")
    ELSE IF InList(u.scheme, valid_schemes) THEN Return(v)
    ELSE IF StartsWith(v, lp_colon) THEN Return(v)
    ELSE IF RelativeAllowed(inst, v) THEN Return(v)
    ELSE IF LooksPrivate(v, u)
         THEN IF conf.ALLOW_PRIVATE_REPOS THEN Return(v)
              ELSE ValidationError("Manual cloning via SSH is not supported")
    ELSE ValidationError("Invalid scheme for URL")

\* lines 117-118 and 50: the module's validator instances
validate_repository_url ==
    [cls |-> "RepositoryURLValidator", disallow_relative_url |-> TRUE, accept_idna |-> FALSE]
validate_submodule_url ==
    [cls |-> "SubmoduleURLValidator", disallow_relative_url |-> FALSE, accept_idna |-> FALSE]

URLValidators == {validate_repository_url, validate_submodule_url}

Settings == [ALLOW_PRIVATE_REPOS : BOOLEAN, DEBUG : BOOLEAN]

NoUrl == [raised |-> FALSE, scheme |-> <<"-">>]
NoOutcome == [kind |-> "none", detail |-> <<>>]
NoRef == [set |-> FALSE]

\* RepositoryURLValidator.__call__(self, value), lines 61-95
RepositoryURLValidatorCall ==
    /\ pc = "pending"
    /\ self \in URLValidators
    /\ LET valid_schemes == ValidSchemes(settings, NewPublicSchemes)
       IN  /\ public_schemes' = valid_schemes
           /\ \E u \in urlparse(value) :
                /\ url' = u
                /\ outcome' = IF u.raised THEN Raised("ValueError")
                              ELSE Decide(self, settings, value, u, valid_schemes)
    /\ pc' = "done"
    /\ UNCHANGED <<settings, self, value, ref>>

----------------------------------------------------------------------------
(* domain_regex, lines 15-20, compiled with re.IGNORECASE (line 26) *)

\* [A-Z0-9] under IGNORECASE
IsAlnum(c) == IsAsciiAlpha(c) \/ IsAsciiDigit(c)
\* [A-F0-9] under IGNORECASE
IsHex(c) == IsAsciiDigit(c) \/ Ord(c) \in 65..70 \/ Ord(c) \in 97..102

\* the character classes of the pattern, as sets
LetterClass == {c \in Chars : IsAsciiAlpha(c)}
DigitClass == {c \in Chars : IsAsciiDigit(c)}
LabelClass == {c \in Chars : IsAlnum(c) \/ c = "-"}
HexColonClass == {c \in Chars : IsHex(c) \/ c = ":"}
AsciiClass == {c \in Chars : IsAscii(c)}

All(s, class) == \A i \in 1..Len(s) : s[i] \in class

\* s split at every c (str.split)
RECURSIVE Split(_, _)
Split(s, c) ==
    LET i == Find(s, c)
    IN  IF i = 0 THEN <<s>>
        ELSE <<SubSeq(s, 1, i - 1)>> \o Split(SubSeq(s, i + 1, Len(s)), c)

\* [A-Z0-9](?:[A-Z0-9-]{0,61}[A-Z0-9])?
IsLabel(t) ==
    /\ Len(t) \in 1..63
    /\ IsAlnum(t[1]) /\ IsAlnum(t[Len(t)])
    /\ All(t, LabelClass)

\* (?:[A-Z]{2,6}\.?|[A-Z0-9-]{2,}(?<!-)\.?)
IsTld(t) ==
    LET core == IF t # <<>> /\ t[Len(t)] = "." THEN SubSeq(t, 1, Len(t) - 1) ELSE t
    IN  \/ Len(core) \in 2..6 /\ All(core, LetterClass)
        \/ /\ Len(core) >= 2
           /\ All(core, LabelClass)
           /\ core[Len(core)] # "-"

\* (?:label\.)+ tld
RECURSIVE IsDottedHost(_)
IsDottedHost(t) ==
    LET i == Find(t, ".")
        rest == SubSeq(t, i + 1, Len(t))
    IN  /\ i > 1
        /\ IsLabel(SubSeq(t, 1, i - 1))
        /\ (IsTld(rest) \/ IsDottedHost(rest))

IsLocalhost(t) ==
    LowerStr(t) = <<"l", "o", "c", "a", "l", "h", "o", "s", "t">>

\* \d{1,3}\.\d{1,3}\.\d{1,3}\.\d{1,3}
IsIPv4(t) ==
    LET parts == Split(t, ".")
    IN  /\ Len(parts) = 4
        /\ \A i \in 1..4 : Len(parts[i]) \in 1..3 /\ All(parts[i], DigitClass)

\* \[?[A-F0-9]*:[A-F0-9:]+\]?
IsIPv6(t) ==
    LET a == IF t # <<>> /\ t[1] = "[" THEN Tail(t) ELSE t
        core == IF a # <<>> /\ a[Len(a)] = "]" THEN SubSeq(a, 1, Len(a) - 1) ELSE a
        i == Find(core, ":")
    IN  /\ All(core, HexColonClass)
        /\ i > 0
        /\ Len(core) > i

\* the whole of t is a match of domain_regex
FullMatch(t) == IsDottedHost(t) \/ IsLocalhost(t) \/ IsIPv4(t) \/ IsIPv6(t)

\* regex.search(t): some part of t is a match
RegexSearch(t) ==
    \E i \in 1..Len(t) : \E j \in i..Len(t) : FullMatch(SubSeq(t, i, j))

----------------------------------------------------------------------------
(* value.encode('idna'), line 44: encodings.idna and encodings.punycode *)

\* T(j, bias)
PunyT(j, bias) ==
    LET res == 36 * (j + 1) - bias
    IN  IF res < 1 THEN 1 ELSE IF res > 26 THEN 26 ELSE res

PunyDigits ==
    << "a", "b", "c", "d", "e", "f", "g", "h", "i", "j", "k", "l", "m", "n",
       "o", "p", "q", "r", "s", "t", "u", "v", "w", "x", "y", "z", "0", "1",
       "2", "3", "4", "5", "6", "7", "8", "9" >>

\* generate_generalized_integer(N, bias), from digit j on
RECURSIVE GeneralizedInteger(_, _, _)
GeneralizedInteger(N, bias, j) ==
    LET t == PunyT(j, bias)
    IN  IF N < t THEN <<PunyDigits[N + 1]>>
        ELSE <<PunyDigits[t + ((N - t) % (36 - t)) + 1]>>
                 \o GeneralizedInteger((N - t) \div (36 - t), bias, j + 1)

RECURSIVE AdaptLoop(_, _)
AdaptLoop(delta, divisions) ==
    IF delta > 455 THEN AdaptLoop(delta \div 35, divisions + 36)
    ELSE divisions + ((36 * delta) \div (delta + 38))

\* adapt(delta, first, numchars)
Adapt(delta, first, numchars) ==
    LET d1 == IF first THEN delta \div 700 ELSE delta \div 2
    IN  AdaptLoop(d1 + (d1 \div numchars), 0)

\* generate_integers(baselen, deltas), from the points-th delta on
RECURSIVE GenerateIntegers(_, _, _, _)
GenerateIntegers(baselen, deltas, points, bias) ==
    IF points > Len(deltas) THEN <<>>
    ELSE GeneralizedInteger(deltas[points], bias, 0)
            \o GenerateIntegers(baselen, deltas, points + 1,
                                Adapt(deltas[points], points = 1, baselen + points))

\* the places of code point ch in codes, in order
Occurrences(codes, ch) ==
    SelectSeq([i \in 1..Len(codes) |-> i], LAMBDA i : codes[i] = ch)

\* insertion_unsort: the deltas of the extended code points, least first.
\* The index of an occurrence is its place among the code points <= ch.
RECURSIVE UnsortOccurrences(_, _, _, _, _)
UnsortOccurrences(codes, ch, occ, delta, oldindex) ==
    IF occ = <<>> THEN [deltas |-> <<>>, oldindex |-> oldindex]
    ELSE LET index == Cardinality({i \in 1..Head(occ) : codes[i] <= ch}) - 1
             r == UnsortOccurrences(codes, ch, Tail(occ), 0, index)
         IN  [deltas |-> <<delta + (index - oldindex) - 1>> \o r.deltas,
              oldindex |-> r.oldindex]

RECURSIVE InsertionUnsort(_, _, _, _)
InsertionUnsort(codes, extended, oldchar, oldindex) ==
    IF extended = {} THEN <<>>
    ELSE LET ch == CHOOSE c \in extended : \A d \in extended : c <= d
             curlen == Cardinality({i \in 1..Len(codes) : codes[i] < ch})
             r == UnsortOccurrences(codes, ch, Occurrences(codes, ch),
                                    (curlen + 1) * (ch - oldchar), oldindex)
         IN  r.deltas \o InsertionUnsort(codes, extended \ {ch}, ch, r.oldindex)

\* punycode_encode(text)
PunycodeEncode(text) ==
    LET codes == [i \in 1..Len(text) |-> Ord(text[i])]
        base == SelectSeq(text, IsAscii)
        extended == {codes[i] : i \in 1..Len(codes)} \ 0..127
        deltas == InsertionUnsort(codes, extended, 128, -1)
        ints == GenerateIntegers(Len(base), deltas, 1, 72)
    IN  IF base # <<>> THEN base \o <<"-">> \o ints ELSE ints

\* nameprep(label) on Chars: the case folding of table B.2
Nameprep(label) == LowerStr(label)

ace_prefix == <<"x", "n", "-", "-">>

Encoded(bytes) == [ok |-> TRUE, bytes |-> bytes]
UnicodeError == [ok |-> FALSE, bytes |-> <<>>]

LabelSizeOk(label) == 0 < Len(label) /\ Len(label) < 64

\* ToASCII(label)
ToASCII(label) ==
    IF All(label, AsciiClass)
    THEN IF LabelSizeOk(label) THEN Encoded(label) ELSE UnicodeError
    ELSE LET prepped == Nameprep(label)
             out == ace_prefix \o PunycodeEncode(prepped)
         IN  IF StartsWith(prepped, ace_prefix) THEN UnicodeError
             ELSE IF LabelSizeOk(out) THEN Encoded(out) ELSE UnicodeError

RECURSIVE JoinLabels(_)
JoinLabels(labels) ==
    IF labels = <<>> THEN <<>>
    ELSE IF Len(labels) = 1 THEN labels[1]
    ELSE labels[1] \o <<".">> \o JoinLabels(Tail(labels))

\* Codec.encode(input) of encodings.idna
IdnaEncode(input) ==
    IF input = <<>> THEN Encoded(<<>>)
    ELSE LET labels == Split(input, ".")
             n == Len(labels)
         IN  IF All(input, AsciiClass)
             THEN IF /\ \A i \in 1..(n - 1) : LabelSizeOk(labels[i])
                     /\ Len(labels[n]) < 64
                  THEN Encoded(input) ELSE UnicodeError
             ELSE LET trailing == labels[n] = <<>>
                      kept == IF trailing THEN SubSeq(labels, 1, n - 1) ELSE labels
                      enc == [i \in 1..Len(kept) |-> ToASCII(kept[i])]
                  IN  IF \E i \in 1..Len(kept) : ~enc[i].ok THEN UnicodeError
                      ELSE Encoded(JoinLabels([i \in 1..Len(kept) |-> enc[i].bytes])
                                      \o (IF trailing THEN <<".">> ELSE <<>>))

----------------------------------------------------------------------------
(* DomainNameValidator *)

\* line 25 and line 33: the message of the instance
Message(inst) ==
    IF inst.accept_idna
    THEN "Enter a valid plain or internationalized domain name value"
    ELSE "Enter a valid domain name value"

\* RegexValidator.__call__(value), called in lines 37 and 47: the value is
\* invalid when regex.search finds no match in its text
RegexValidatorRaises(text) == ~RegexSearch(text)

\* DomainNameValidator.__call__(self, value), lines 35-47: None is returned
\* on success
DomainOutcome(inst, v) ==
    IF ~RegexValidatorRaises(v) THEN Return(<<>>)
    ELSE IF ~inst.accept_idna THEN ValidationError(Message(inst))
    ELSE IF v = <<>> THEN ValidationError(Message(inst))
    ELSE LET idnavalue == IdnaEncode(v)
         IN  IF ~idnavalue.ok THEN ValidationError(Message(inst))
             ELSE IF RegexValidatorRaises(idnavalue.bytes)
                  THEN ValidationError(Message(inst))
                  ELSE Return(<<>>)

\* line 50, and the same validator constructed with accept_idna=False
validate_domain_name ==
    [cls |-> "DomainNameValidator", disallow_relative_url |-> FALSE, accept_idna |-> TRUE]
validate_plain_domain_name ==
    [cls |-> "DomainNameValidator", disallow_relative_url |-> FALSE, accept_idna |-> FALSE]

DomainValidators == {validate_domain_name, validate_plain_domain_name}

DomainNameValidatorCall ==
    /\ pc = "pending"
    /\ self \in DomainValidators
    /\ outcome' = DomainOutcome(self, value)
    /\ pc' = "done"
    /\ UNCHANGED <<settings, self, value, url, public_schemes, ref>>

----------------------------------------------------------------------------
(* Inputs *)

\* the longest text appended to a URL seed
MaxTail == 3
\* the longest text put before and after a domain seed
MaxAffix == 1

Strings(cs, n) == UNION {[1..k -> cs] : k \in 0..n}

UrlTailChars == {":", "/", "[", "@", ".", "&", "|", "\n"}

UrlSeeds ==
    { <<>>,
      https \o <<":", "/", "/">>,
      <<"H", "t", "t", "p", ":">>,
      ssh \o <<":", "/", "/">>,
      ssh_git \o <<":">>,
      file \o <<":">>,
      lp_colon,
      git }

UrlValues == {seed \o t : seed \in UrlSeeds, t \in Strings(UrlTailChars, MaxTail)}

DomainAffixChars == {"a", "1", "-", ".", ":", "!", U_uml}

DomainSeeds ==
    { <<>>,
      <<"a", ".", "d", "e">>,
      <<"l", "o", "c", "a", "l", "h", "o", "s", "t">>,
      <<"1", ".", "1", ".", "1", ".", "1">>,
      <<"[", ":", ":", "1", "]">>,
      <<U_uml, ".", "d", "e">>,
      <<"M", U_uml, ".", "d", "e">>,
      <<"m", U_uml, "l", "l", "e", "r", ".", "d", "e">> }

DomainValues ==
    {pre \o seed \o post : pre \in Strings(DomainAffixChars, MaxAffix),
                           seed \in DomainSeeds,
                           post \in Strings(DomainAffixChars, MaxAffix)}

DefaultSettings == [ALLOW_PRIVATE_REPOS |-> FALSE, DEBUG |-> FALSE]

----------------------------------------------------------------------------
(* One call of one validator on one input *)

Init ==
    /\ pc = "pending"
    /\ \/ self \in URLValidators /\ value \in UrlValues /\ settings \in Settings
       \/ self \in DomainValidators /\ value \in DomainValues /\ settings = DefaultSettings
    /\ url = NoUrl
    /\ public_schemes = PublicSchemesLiteral
    /\ outcome = NoOutcome
    /\ ref = NoRef

OtherURLValidator(inst) ==
    IF inst = validate_repository_url THEN validate_submodule_url
    ELSE validate_repository_url

Finished ==
    [set |-> TRUE, settings |-> settings, self |-> self, value |-> value,
     outcome |-> outcome]

\* The caller hands the value one URL validator has judged to the other one
\* (lines 117-118: both instances are there to be called), under the same
\* settings.
Resubmit ==
    /\ pc = "done"
    /\ self \in URLValidators
    /\ ~ref.set
    /\ ref' = Finished
    /\ self' = OtherURLValidator(self)
    /\ pc' = "pending"
    /\ url' = NoUrl
    /\ outcome' = NoOutcome
    /\ UNCHANGED <<settings, value, public_schemes>>

Next == RepositoryURLValidatorCall \/ DomainNameValidatorCall \/ Resubmit

Spec == Init /\ [][Next]_vars

----------------------------------------------------------------------------
(* Calls one after another, the settings changing between them *)

SeqValues ==
    { https \o <<":", "/", "/", "a">>,
      ssh \o <<":", "/", "/", "a">>,
      ssh_git \o <<":", "/", "/", "a">>,
      file \o <<":", "/", "/", "/", "a">>,
      git \o <<"@", "a", ":", "b">>,
      lp_colon \o <<"a">>,
      <<".", "/", "a">>,
      <<"a">> }

SeqDomainValues == { <<"a", ".", "d", "e">>, <<U_uml, ".", "d", "e">>, <<"a">> }

InitSeq ==
    /\ pc = "idle"
    /\ settings \in Settings
    /\ self = validate_repository_url
    /\ value = <<>>
    /\ url = NoUrl
    /\ public_schemes = PublicSchemesLiteral
    /\ outcome = NoOutcome
    /\ ref = NoRef

\* a caller calls a validator instance with a value
Submit ==
    /\ pc \in {"idle", "done"}
    /\ \/ self' \in URLValidators /\ value' \in SeqValues
       \/ self' \in DomainValidators /\ value' \in SeqDomainValues
    /\ pc' = "pending"
    /\ url' = NoUrl
    /\ outcome' = NoOutcome
    /\ UNCHANGED <<settings, public_schemes, ref>>

\* the process configuration changes between two calls
Configure ==
    /\ pc \in {"idle", "done"}
    /\ settings' \in Settings \ {settings}
    /\ pc' = "idle"
    /\ UNCHANGED <<self, value, url, public_schemes, outcome, ref>>

\* the finished call is kept for comparison with a later one
Remember ==
    /\ pc = "done"
    /\ ~ref.set
    /\ ref' = Finished
    /\ UNCHANGED <<settings, self, value, url, public_schemes, outcome, pc>>

NextSeq ==
    \/ Submit
    \/ Configure
    \/ Remember
    \/ RepositoryURLValidatorCall
    \/ DomainNameValidatorCall

SpecSeq == InitSeq /\ [][NextSeq]_vars

----------------------------------------------------------------------------
(* The claims *)

Done == pc = "done"
UrlCall == self \in URLValidators
DomainCall == self \in DomainValidators

InvalidCharacter == ValidationError("Invalid character in the URL")
UnsupportedScheme == ValidationError("Invalid scheme for URL")
PrivateCloningNotSupported ==
    ValidationError("Manual cloning via SSH is not supported")
InvalidDomainFormat ==
    ValidationError("Enter a valid plain or internationalized domain name value")
InternationalizedNotAccepted == ValidationError("Enter a valid domain name value")

Accepted == outcome = Return(value)

\* the value contains && or |
Malicious(v) ==
    \E i \in 1..Len(v) :
        v[i] = "|" \/ (v[i] = "&" /\ i < Len(v) /\ v[i + 1] = "&")

\* one or more word characters, then @, then at least one more character
Shorthand(v) ==
    \E k \in 1..Len(v) :
        /\ \A j \in 1..k : IsWordChar(v[j])
        /\ Len(v) >= k + 2
        /\ v[k + 1] = "@"

\* ... where the character after the @ is not a line feed
ShorthandOnOneLine(v) ==
    \E k \in 1..Len(v) :
        /\ \A j \in 1..k : IsWordChar(v[j])
        /\ Len(v) >= k + 2
        /\ v[k + 1] = "@"
        /\ v[k + 2] # "\n"

ParsedSchemeIn(set) == ~url.raised /\ url.scheme \in set

StartsWithDot(v) == v # <<>> /\ v[1] = "."
StartsWithLp(v) == Len(v) >= 3 /\ v[1] = "l" /\ v[2] = "p" /\ v[3] = ":"

\* the schemes the settings make valid
CurrentlyValid(conf) ==
    {https, http, git, ftps, ftp}
        \cup (IF conf.ALLOW_PRIVATE_REPOS THEN {ssh, ssh_git} ELSE {})
        \cup (IF conf.DEBUG THEN {file} ELSE {})

\* C1: a URL value that contains && or | is rejected with InvalidCharacter by
\* both URL validators under every policy, whatever urlparse makes of it.
C1_MaliciousIsInvalidCharacter ==
    (Done /\ UrlCall /\ Malicious(value)) => outcome = InvalidCharacter

C2_Case(shorthand) ==
    /\ Done /\ UrlCall
    /\ ~Malicious(value)
    /\ shorthand \/ ParsedSchemeIn({ssh, ssh_git})
    /\ ~StartsWithLp(value)
    /\ ~(self = validate_submodule_url /\ StartsWithDot(value))

C2_Verdict ==
    /\ Accepted <=> settings.ALLOW_PRIVATE_REPOS
    /\ ~settings.ALLOW_PRIVATE_REPOS => outcome = PrivateCloningNotSupported

\* C2 as stated: word characters, @ and any further character make a value an
\* SSH shorthand, which is accepted iff ALLOW_PRIVATE_REPOS and otherwise
\* rejected with PrivateCloningNotSupported.
C2_Original == C2_Case(Shorthand(value)) => C2_Verdict

\* C2, amended: a value without && or | that is an SSH shorthand (word
\* characters, then @, then a character that is not a line feed) or has a
\* parsed scheme ssh or ssh+git, and starts with neither lp: nor (for the
\* submodule validator) a dot, is accepted iff ALLOW_PRIVATE_REPOS is set and
\* is otherwise rejected with PrivateCloningNotSupported, whatever DEBUG is.
C2_PrivateNeedsPermission == C2_Case(ShorthandOnOneLine(value)) => C2_Verdict

C2_Witness ==
    /\ C2_Case(ShorthandOnOneLine(value))
    /\ ~settings.ALLOW_PRIVATE_REPOS /\ settings.DEBUG
    /\ outcome = PrivateCloningNotSupported

\* C3: a URL value without && or | whose parsed scheme is in the valid set
\* (public, plus ssh and ssh+git under ALLOW_PRIVATE_REPOS, plus file under
\* DEBUG, and nothing else) is accepted and returned unchanged.
C3_ValidSchemeReturnsValue ==
    (Done /\ UrlCall /\ ~url.raised) =>
        /\ {public_schemes[i] : i \in 1..Len(public_schemes)} = CurrentlyValid(settings)
        /\ (~Malicious(value) /\ url.scheme \in CurrentlyValid(settings)) => Accepted

C3_Witness ==
    /\ Done /\ UrlCall /\ ~Malicious(value)
    /\ ParsedSchemeIn({http}) /\ value[1] = "H"
    /\ outcome = Return(value)

C4_Case ==
    /\ Done /\ UrlCall
    /\ ~Malicious(value)
    /\ ParsedSchemeIn({file})
    /\ ~StartsWithLp(value) /\ ~StartsWithDot(value) /\ ~Shorthand(value)

\* C4: a file URL that is no special case is accepted iff DEBUG is set and is
\* otherwise rejected with UnsupportedScheme, whatever ALLOW_PRIVATE_REPOS is.
C4_FileOnlyInDebug ==
    C4_Case => /\ settings.DEBUG => Accepted
               /\ ~settings.DEBUG => outcome = UnsupportedScheme

C4_Witness ==
    /\ C4_Case
    /\ ~settings.DEBUG /\ settings.ALLOW_PRIVATE_REPOS
    /\ outcome = UnsupportedScheme

\* ref is the other URL validator's finished call on the same value under the
\* same settings
SameCallByOther ==
    /\ Done /\ UrlCall /\ ref.set
    /\ ref.self = OtherURLValidator(self)
    /\ ref.value = value /\ ref.settings = settings

\* C5: a value that starts with a dot and contains neither && nor | is
\* accepted by the submodule validator and rejected by the repository
\* validator under every policy; on a value that does not start with a dot
\* the two validators end the same way.
C5_RelativeOnlyForSubmodules ==
    /\ (Done /\ UrlCall /\ StartsWithDot(value) /\ ~Malicious(value)) =>
          /\ self = validate_submodule_url => Accepted
          /\ self = validate_repository_url => outcome.kind = "ValidationError"
    /\ (SameCallByOther /\ ~StartsWithDot(value)) => outcome = ref.outcome

C5_Witness ==
    /\ SameCallByOther
    /\ StartsWithDot(value) /\ ~Malicious(value)
    /\ self = validate_repository_url
    /\ outcome = UnsupportedScheme
    /\ ref.outcome = Return(value)

\* C6: a value that starts with lp: and contains neither && nor | is accepted
\* by both URL validators under every policy.
C6_LaunchpadAlwaysAccepted ==
    (Done /\ UrlCall /\ StartsWithLp(value) /\ ~Malicious(value)) => Accepted

EncodedFullMatch(v) ==
    LET idnavalue == IdnaEncode(v) IN idnavalue.ok /\ FullMatch(idnavalue.bytes)

\* C7: the domain validator accepts a value only when the whole value, or the
\* whole of its IDNA-encoded form, matches the domain grammar.
C7_WholeStringMatch ==
    (Done /\ DomainCall /\ outcome.kind = "return") =>
        FullMatch(value) \/ EncodedFullMatch(value)

\* C8: the domain validator accepts a value that matches the grammar; rejects
\* one that does not with InternationalizedNotAccepted when accept_idna is
\* false; and with accept_idna true accepts it iff it is non-empty and its
\* IDNA-encoded form exists and matches, rejecting with InvalidDomainFormat
\* otherwise.
C8_TwoStageFallback ==
    (Done /\ DomainCall) =>
        /\ FullMatch(value) => outcome.kind = "return"
        /\ (~FullMatch(value) /\ ~self.accept_idna) =>
               outcome = InternationalizedNotAccepted
        /\ (~FullMatch(value) /\ self.accept_idna) =>
               /\ outcome.kind = "return" <=> (value # <<>> /\ EncodedFullMatch(value))
               /\ outcome.kind # "return" => outcome = InvalidDomainFormat

\* C9: every call of a URL validator ends with the value accepted or with one
\* of the three rejections; no other exception reaches the caller.
C9_OnlyStructuredOutcomes ==
    (Done /\ UrlCall) =>
        \/ Accepted
        \/ outcome \in {InvalidCharacter, UnsupportedScheme, PrivateCloningNotSupported}

\* ref is an earlier call of the same validator on the same value under the
\* same settings
SameCallEarlier ==
    /\ Done /\ ref.set
    /\ ref.self = self /\ ref.value = value /\ ref.settings = settings

\* C10: whatever calls came before, a call ends as an earlier call with the
\* same value, validator and settings did; the list of valid schemes of a
\* call holds the public schemes and what the settings of this call add,
\* each once; and ssh, ssh+git and file URLs are not accepted while the
\* setting that allows them is off.
C10_CallsDoNotInfluenceLaterCalls ==
    /\ SameCallEarlier => outcome = ref.outcome
    /\ (Done /\ UrlCall) =>
          /\ Len(public_schemes) = Cardinality(CurrentlyValid(settings))
          /\ {public_schemes[i] : i \in 1..Len(public_schemes)} = CurrentlyValid(settings)
    /\ (Done /\ UrlCall /\ ParsedSchemeIn({ssh, ssh_git})
          /\ ~settings.ALLOW_PRIVATE_REPOS) => ~Accepted
    /\ (Done /\ UrlCall /\ ParsedSchemeIn({file}) /\ ~settings.DEBUG) => ~Accepted

C10_Witness ==
    /\ Done /\ UrlCall /\ ref.set
    /\ ref.settings.ALLOW_PRIVATE_REPOS /\ ref.settings.DEBUG
    /\ ref.value = value /\ ref.outcome = Return(value)
    /\ ParsedSchemeIn({ssh})
    /\ ~settings.ALLOW_PRIVATE_REPOS /\ ~settings.DEBUG
    /\ outcome = PrivateCloningNotSupported

====
